---- MODULE Spec2Model ----
(***************************************************************************)
(* Model of the hickory styling core: itertools cycles and the            *)
(* MultiCycler (hickory/cyclers.py), the marker-name table                 *)
(* (hickory/markers.py), the style resolution and the bin count that       *)
(* HickoryAxes works out before a call is handed to matplotlib             *)
(* (hickory/axes.py), and the construction of Plot and Table               *)
(* (hickory/plot_containers.py).                                           *)
(*                                                                         *)
(* Python values are modelled by strings.  PyNone stands for Python's      *)
(* None; the tuple linestyles of EXTRA_LINESTYLES are written as their     *)
(* repr.  A dict is a function whose DOMAIN is the set of its keys, so     *)
(* "'marker' in kw" is "marker" \in DOMAIN kw.  Objects with identity      *)
(* (itertools.cycle iterators, MultiCycler instances, axes) live in the    *)
(* sequences cycles, mcs and axes and are referred to by their index.      *)
(***************************************************************************)
EXTENDS Integers, Sequences, FiniteSets, TLC

VARIABLES
    cycles,     \* heap of itertools.cycle objects: [items, pos]
    pre,        \* history: the heap of cycles as it was before the last operation
    held,       \* ids of the cycles returned to the caller by get_*_cycler
    mcs,        \* heap of MultiCycler objects: their _cycles dict, key -> cycle id
    axes,       \* heap of HickoryAxes objects: [cycler |-> id of a MultiCycler]
    rendered,   \* the call the last operation made to the matplotlib renderer
    last,       \* the last operation: what was called, with what, and how it ended
    ncalls,     \* history: per MultiCycler and key, the next(key) calls that returned
    hist,       \* history: per axes, the drawing calls issued so far
    figs,       \* heap of Plot and Table objects
    calls,      \* the calls the last operation made to the figure and pyplot, in order
    nops        \* number of operations carried out so far

vars == <<cycles, pre, held, mcs, axes, rendered, last, ncalls, hist, figs, calls, nops>>

----------------------------------------------------------------------------
(* Bounds of the model *)

MaxCyclerOps == 5   \* operations of a behaviour of SpecCycler
MaxOps == 3         \* operations of a behaviour of Spec
MaxSeqOps == 5      \* operations of a behaviour of SpecSeq
MaxNameOps == 4     \* operations of a behaviour of SpecNames
MaxHistOps == 2     \* operations of a behaviour of SpecHist
MaxFigOps == 4      \* operations of a behaviour of SpecFig
MaxDefaultOps == 13 \* operations of a behaviour of SpecDefault
MaxDefaults == 2    \* default cyclers of a behaviour of SpecDefault
MaxOrderOps == 4    \* operations of a behaviour of SpecOrder
MaxIterOps == 5     \* operations of a behaviour of SpecIter
MaxConvOps == 2     \* operations of a behaviour of SpecConv

----------------------------------------------------------------------------
(* Python values *)

PyNone == "<None>"

Names == {"marker", "linestyle", "color"}

\* the order in which a construction's keywords are walked
KeyOrder == <<"marker", "linestyle", "color">>

\* kw[key] = value on a dict
SetItem(kw, key, value) ==
    [k \in (DOMAIN kw) \cup {key} |-> IF k = key THEN value ELSE kw[k]]

----------------------------------------------------------------------------
(* hickory/cyclers.py *)

DEFAULT_MARKERS == <<"o", "d", "^", "s", "v", "h", "p", "P", "H", "X">>

DEFAULT_LINESTYLES ==
    <<"solid", "dashed", "dotted",
      "(0, (3, 1, 1, 1))",
      "(0, (5, 5))",
      "(0, (3, 1, 1, 1, 1, 1))",
      "(0, (1, 1))",
      "dashdot",
      "(0, (5, 10))",
      "(0, (5, 1))">>

DEFAULT_COLORS ==
    <<"#1f77b4", "#ff7f0e", "#2ca02c", "#d62728",
      "#9467bd", "#8c564b", "#e377c2", "#7f7f7f", "#bcbd22", "#17becf">>

\* itertools.cycle(iterable): a new iterator at the start of the saved items
itertools_cycle(items) == [items |-> items, pos |-> 0]

\* a cycle that does not wrap: at the end it repeats its last item
cycle_next_stuck(c) ==
    IF Len(c.items) = 0
    THEN [raised |-> "StopIteration", value |-> PyNone, cyc |-> c]
    ELSE [raised |-> "none",
          value |-> c.items[c.pos + 1],
          cyc |-> [c EXCEPT !.pos = IF c.pos + 1 < Len(c.items)
                                    THEN c.pos + 1 ELSE c.pos]]

\* next(c) on an itertools.cycle: StopIteration when there is nothing to
\* repeat, else the item at the cursor, the cursor moving on and wrapping
cycle_next(c) ==
    IF Len(c.items) = 0
    THEN [raised |-> "StopIteration", value |-> PyNone, cyc |-> c]
    ELSE [raised |-> "none",
          value |-> c.items[c.pos + 1],
          cyc |-> [c EXCEPT !.pos = (c.pos + 1) % Len(c.items)]]

\* the two shapes of a MultiCycler keyword argument: something with
\* __next__ (a ready-made cycle, by reference) or anything else (a list)
Ready(id) == [has_next |-> TRUE, ref |-> id, list |-> << >>]
Raw(list) == [has_next |-> FALSE, ref |-> 0, list |-> list]

\* MultiCycler.__init__: the loop over kw.items(), from the i-th key on
RECURSIVE MultiCycler_fill(_, _, _, _)
MultiCycler_fill(heap, kw, i, acc) ==
    IF i > Len(KeyOrder) THEN [heap |-> heap, cycles |-> acc]
    ELSE LET key == KeyOrder[i] IN
         IF key \notin DOMAIN kw
         THEN MultiCycler_fill(heap, kw, i + 1, acc)
         ELSE IF kw[key].has_next
         THEN MultiCycler_fill(heap, kw, i + 1, SetItem(acc, key, kw[key].ref))
         ELSE MultiCycler_fill(Append(heap, itertools_cycle(kw[key].list)),
                               kw, i + 1, SetItem(acc, key, Len(heap) + 1))

\* MultiCycler(**kw): the new object's _cycles and the heap after construction
MultiCycler_init(heap, kw) == MultiCycler_fill(heap, kw, 1, << >>)

\* a next() that answers None for a name it does not know
MultiCycler_next_lenient(heap, mc, type) ==
    IF type \notin DOMAIN mc
    THEN [raised |-> "none", value |-> PyNone, heap |-> heap]
    ELSE LET r == cycle_next(heap[mc[type]]) IN
         [raised |-> r.raised, value |-> r.value,
          heap |-> [heap EXCEPT ![mc[type]] = r.cyc]]

\* a next() that loses the cursor's move
MultiCycler_next_restart(heap, mc, type) ==
    IF type \notin DOMAIN mc
    THEN [raised |-> "ValueError", value |-> PyNone, heap |-> heap]
    ELSE LET r == cycle_next(heap[mc[type]]) IN
         [raised |-> r.raised, value |-> r.value, heap |-> heap]

\* MultiCycler.next(type) on the object whose _cycles is mc
MultiCycler_next(heap, mc, type) ==
    IF type \notin DOMAIN mc
    THEN [raised |-> "ValueError", value |-> PyNone, heap |-> heap]
    ELSE LET r == cycle_next(heap[mc[type]]) IN
         [raised |-> r.raised, value |-> r.value,
          heap |-> [heap EXCEPT ![mc[type]] = r.cyc]]

\* a get_default_multi_cycler that makes its three cycles once and hands
\* the same ones to every cycler it returns
get_default_multi_cycler_shared(heap) ==
    LET n == IF Len(heap) >= 3 THEN 0 ELSE Len(heap)
        heap3 == IF Len(heap) >= 3 THEN heap
                 ELSE heap \o <<itertools_cycle(DEFAULT_MARKERS),
                                itertools_cycle(DEFAULT_LINESTYLES),
                                itertools_cycle(DEFAULT_COLORS)>>
    IN MultiCycler_init(heap3,
           [k \in Names |-> IF k = "marker" THEN Ready(n + 1)
                            ELSE IF k = "linestyle" THEN Ready(n + 2)
                            ELSE Ready(n + 3)])

\* get_default_multi_cycler(): three ready-made default cycles in a MultiCycler
get_default_multi_cycler(heap) ==
    LET n == Len(heap)
        heap3 == heap \o <<itertools_cycle(DEFAULT_MARKERS),
                           itertools_cycle(DEFAULT_LINESTYLES),
                           itertools_cycle(DEFAULT_COLORS)>>
    IN MultiCycler_init(heap3,
           [k \in Names |-> IF k = "marker" THEN Ready(n + 1)
                            ELSE IF k = "linestyle" THEN Ready(n + 2)
                            ELSE Ready(n + 3)])

----------------------------------------------------------------------------
(* Inputs *)

\* lists a caller hands to get_*_cycler or to MultiCycler
RawLists == {<< >>, <<"red", "B">>, <<"A", "B", "C">>}

\* keyword arguments of a MultiCycler construction: some of the three
\* names, each given the same raw list or the same cycle the caller holds
KeySets == {{"color"}, Names}
CyclerArgs == {Raw(l) : l \in RawLists} \cup {Ready(c) : c \in held}
CyclerKws == {[k \in S |-> a] : S \in KeySets, a \in CyclerArgs}

\* names asked of MultiCycler.next; fontsize is never registered
NextTypes == Names \cup {"fontsize"}

NoCall == [ax |-> 0, prim |-> "none", kw |-> << >>]
NoHist == [plots |-> 0, nolines |-> 0, omitted |-> TRUE, raised |-> FALSE]

----------------------------------------------------------------------------
(* Operations on cyclers *)

Init ==
    /\ cycles = << >>
    /\ pre = << >>
    /\ held = {}
    /\ mcs = << >>
    /\ axes = << >>
    /\ rendered = NoCall
    /\ last = [op |-> "init", target |-> 0, arg |-> << >>,
               raised |-> "none", value |-> PyNone]
    /\ ncalls = << >>
    /\ hist = << >>
    /\ figs = << >>
    /\ calls = << >>
    /\ nops = 0

\* c = get_marker_cycler(markers)  (get_linestyle_cycler and
\* get_color_cycler have the same body)
GetCycler(list) ==
    /\ cycles' = Append(cycles, itertools_cycle(list))
    /\ pre' = cycles
    /\ held' = held \cup {Len(cycles) + 1}
    /\ last' = [op |-> "get_cycler", target |-> Len(cycles) + 1, arg |-> list,
                raised |-> "none", value |-> PyNone]
    /\ rendered' = NoCall
    /\ nops' = nops + 1
    /\ calls' = << >>
    /\ UNCHANGED <<mcs, axes, ncalls, hist, figs>>

\* mc = MultiCycler(**kw)
NewMultiCycler(kw) ==
    /\ LET r == MultiCycler_init(cycles, kw) IN
         /\ cycles' = r.heap
         /\ mcs' = Append(mcs, r.cycles)
    /\ pre' = cycles
    /\ ncalls' = Append(ncalls, [k \in Names |-> 0])
    /\ last' = [op |-> "MultiCycler", target |-> Len(mcs) + 1, arg |-> kw,
                raised |-> "none", value |-> PyNone]
    /\ rendered' = NoCall
    /\ nops' = nops + 1
    /\ calls' = << >>
    /\ UNCHANGED <<held, axes, hist, figs>>

\* mcs[m].next(type)
MCNext(m, type) ==
    /\ LET r == MultiCycler_next(cycles, mcs[m], type) IN
         /\ cycles' = r.heap
         /\ last' = [op |-> "next", target |-> m, arg |-> type,
                     raised |-> r.raised, value |-> r.value]
         /\ ncalls' = IF r.raised = "none"
                      THEN [ncalls EXCEPT ![m][type] = @ + 1]
                      ELSE ncalls
    /\ pre' = cycles
    /\ nops' = nops + 1
    /\ calls' = << >>
    /\ rendered' = NoCall
    /\ UNCHANGED <<held, mcs, axes, hist, figs>>

NextCycler ==
    \/ nops < MaxCyclerOps /\ \E list \in RawLists : GetCycler(list)
    \/ nops < MaxCyclerOps /\ \E kw \in CyclerKws : NewMultiCycler(kw)
    \/ nops < MaxCyclerOps /\ \E m \in 1..Len(mcs), type \in NextTypes : MCNext(m, type)

SpecCycler == Init /\ [][NextCycler]_vars

\* mc = get_default_multi_cycler()
GetDefault ==
    /\ LET r == get_default_multi_cycler(cycles) IN
         /\ cycles' = r.heap
         /\ mcs' = Append(mcs, r.cycles)
    /\ ncalls' = Append(ncalls, [k \in Names |-> 0])
    /\ pre' = cycles
    /\ last' = [op |-> "get_default_multi_cycler", target |-> Len(mcs) + 1,
                arg |-> << >>, raised |-> "none", value |-> PyNone]
    /\ rendered' = NoCall
    /\ nops' = nops + 1
    /\ calls' = << >>
    /\ UNCHANGED <<held, axes, hist, figs>>

\* default cyclers and the values taken from them
NextDefault ==
    \/ nops < MaxDefaultOps /\ Len(mcs) < MaxDefaults /\ GetDefault
    \/ nops < MaxDefaultOps /\ \E m \in 1..Len(mcs), type \in Names : MCNext(m, type)

SpecDefault == Init /\ [][NextDefault]_vars

----------------------------------------------------------------------------
(* hickory/markers.py *)

MarkerNames ==
    {"point", "dot", "circle", "triangle_down", "triangle_up", "triangle",
     "triangle_left", "triangle_right", "tri_down", "tri_up", "tri_left",
     "tri_right", "octagon", "square", "pentagon", "filled_plus", "star",
     "hexagon", "hexagon1", "hexagon2", "plus", "x", "filled_x",
     "thick_diamond", "thin_diamond", "diamond"}

MARKERS ==
    [n \in MarkerNames |->
        CASE n = "point" -> "."
          [] n = "dot" -> ","
          [] n = "circle" -> "o"
          [] n = "triangle_down" -> "v"
          [] n = "triangle_up" -> "^"
          [] n = "triangle" -> "^"
          [] n = "triangle_left" -> "<"
          [] n = "triangle_right" -> ">"
          [] n = "tri_down" -> "1"
          [] n = "tri_up" -> "2"
          [] n = "tri_left" -> "3"
          [] n = "tri_right" -> "4"
          [] n = "octagon" -> "8"
          [] n = "square" -> "s"
          [] n = "pentagon" -> "p"
          [] n = "filled_plus" -> "P"
          [] n = "star" -> "*"
          [] n = "hexagon" -> "h"
          [] n = "hexagon1" -> "h"
          [] n = "hexagon2" -> "H"
          [] n = "plus" -> "+"
          [] n = "x" -> "x"
          [] n = "filled_x" -> "X"
          [] n = "thick_diamond" -> "D"
          [] n = "thin_diamond" -> "d"
          [] n = "diamond" -> "d"]

\* values that cannot be hashed, written as their repr: a marker given as
\* a list of vertices
Unhashable == {"[(0, 0), (1, 1), (0, 1)]"}

\* d.get(key, None): hashing the key comes first and raises TypeError for
\* an unhashable one
dict_get(d, key) ==
    IF key \in Unhashable THEN [raised |-> "TypeError", value |-> PyNone]
    ELSE [raised |-> "none", value |-> IF key \in DOMAIN d THEN d[key] ELSE PyNone]

\* a get_marker that rejects a name it does not know
get_marker_strict(marker_name) ==
    LET m == dict_get(MARKERS, marker_name) IN
    IF m.raised # "none" THEN m
    ELSE IF m.value = PyNone THEN [raised |-> "ValueError", value |-> PyNone]
    ELSE m

\* a get_marker that answers a native code it is given with a name for it
get_marker_named(marker_name) ==
    LET m == dict_get(MARKERS, marker_name) IN
    IF m.raised # "none" THEN m
    ELSE IF m.value = PyNone
    THEN [raised |-> "none",
          value |-> IF marker_name = "o" THEN "circle" ELSE marker_name]
    ELSE m

\* get_marker(marker_name): m = MARKERS.get(marker_name, None), the name
\* itself when m is None, else m
get_marker(marker_name) ==
    LET m == dict_get(MARKERS, marker_name) IN
    IF m.raised # "none" THEN m
    ELSE IF m.value = PyNone THEN [raised |-> "none", value |-> marker_name]
    ELSE m

\* the native codes of the table
MarkerCodes == {MARKERS[n] : n \in MarkerNames}

\* what a caller may hand to get_marker: the names and the codes of the
\* table, strings that are neither, None, and an unhashable value
MarkerInputs ==
    MarkerNames \cup MarkerCodes \cup {"cycle", "Circle", "", PyNone} \cup Unhashable

NoPrev == [arg |-> PyNone, raised |-> "no call", value |-> PyNone]

\* get_marker(v), last.prev keeping the get_marker call just before it
GetMarker(v) ==
    /\ LET r == get_marker(v) IN
         last' = [op |-> "get_marker", target |-> 0, arg |-> v,
                  raised |-> r.raised, value |-> r.value,
                  prev |-> IF last.op = "get_marker"
                           THEN [arg |-> last.arg, raised |-> last.raised,
                                 value |-> last.value]
                           ELSE NoPrev]
    /\ pre' = cycles
    /\ rendered' = NoCall
    /\ nops' = nops + 1
    /\ calls' = << >>
    /\ UNCHANGED <<cycles, held, mcs, axes, ncalls, hist, figs>>

----------------------------------------------------------------------------
(* hickory/colors.py: the table axes.py imports as COLORS *)

COLORS == [n \in {"red", "blue"} |-> IF n = "red" THEN "#ff0000" ELSE "#0000ff"]

----------------------------------------------------------------------------
(* hickory/axes.py: style resolution.  One drawing call threads a record  *)
(* st = [kw, heap, raised] through its statements; a statement after a     *)
(* raise is not executed.                                                  *)

\* a SetFromCycler that goes on without the entry when the cycler raises
SetFromCycler_lenient(st, mc, key) ==
    LET r == MultiCycler_next(st.heap, mc, key) IN
    IF r.raised # "none"
    THEN [kw |-> st.kw, heap |-> r.heap, raised |-> "none"]
    ELSE [kw |-> SetItem(st.kw, key, r.value), heap |-> r.heap, raised |-> "none"]

\* kw[key] = self.cycler.next(key)
SetFromCycler(st, mc, key) ==
    LET r == MultiCycler_next(st.heap, mc, key) IN
    IF r.raised # "none"
    THEN [kw |-> st.kw, heap |-> r.heap, raised |-> r.raised]
    ELSE [kw |-> SetItem(st.kw, key, r.value), heap |-> r.heap, raised |-> "none"]

\* kw.get(key, default)
KwGet(kw, key, default) == IF key \in DOMAIN kw THEN kw[key] ELSE default

\* a _set_color that draws a color whether or not one was given
set_color_always(st, mc) == SetFromCycler(st, mc, "color")

\* a _set_color that draws two colors and keeps the second
set_color_twice(st, mc) ==
    IF "color" \notin DOMAIN st.kw
    THEN LET s1 == SetFromCycler(st, mc, "color") IN
         IF s1.raised # "none" THEN s1 ELSE SetFromCycler(s1, mc, "color")
    ELSE st

\* HickoryAxes._set_color
set_color(st, mc) ==
    IF "color" \notin DOMAIN st.kw THEN SetFromCycler(st, mc, "color") ELSE st

DEFAULT_MARKER == "o"

\* a no-line policy that falls back on DEFAULT_MARKER instead of cycling
set_props_default_noline_fixed(st, mc) ==
    LET has_marker == "marker" \in DOMAIN st.kw
        s1 == IF (~has_marker) \/ (has_marker /\ st.kw["marker"] = "cycle")
              THEN [st EXCEPT !.kw = SetItem(st.kw, "marker", DEFAULT_MARKER)]
              ELSE st
        linestyle == KwGet(s1.kw, "linestyle", PyNone)
    IN IF linestyle = PyNone
       THEN [s1 EXCEPT !.kw = SetItem(s1.kw, "linestyle", "none")]
       ELSE IF linestyle = "cycle"
       THEN SetFromCycler(s1, mc, "linestyle")
       ELSE s1

\* a no-line policy that hands a linestyle of 'cycle' on as it came
set_props_default_noline_sentinel(st, mc) ==
    LET has_marker == "marker" \in DOMAIN st.kw
        s1 == IF (~has_marker) \/ (has_marker /\ st.kw["marker"] = "cycle")
              THEN SetFromCycler(st, mc, "marker")
              ELSE st
        linestyle == KwGet(s1.kw, "linestyle", PyNone)
    IN IF s1.raised # "none" THEN s1
       ELSE IF linestyle = PyNone
       THEN [s1 EXCEPT !.kw = SetItem(s1.kw, "linestyle", "none")]
       ELSE s1

\* a no-line policy that draws a line when no linestyle is given, as the
\* line policy does
set_props_default_noline_lined(st, mc) ==
    LET has_marker == "marker" \in DOMAIN st.kw
        s1 == IF (~has_marker) \/ (has_marker /\ st.kw["marker"] = "cycle")
              THEN SetFromCycler(st, mc, "marker")
              ELSE st
        has_line == "linestyle" \in DOMAIN s1.kw
    IN IF s1.raised # "none" THEN s1
       ELSE IF has_line /\ s1.kw["linestyle"] = PyNone
       THEN [s1 EXCEPT !.kw = SetItem(s1.kw, "linestyle", "none")]
       ELSE IF (~has_line) \/ s1.kw["linestyle"] = "cycle"
       THEN SetFromCycler(s1, mc, "linestyle")
       ELSE s1

\* HickoryAxes._set_props_default_noline
set_props_default_noline(st, mc) ==
    LET has_marker == "marker" \in DOMAIN st.kw
        s1 == IF (~has_marker) \/ (has_marker /\ st.kw["marker"] = "cycle")
              THEN SetFromCycler(st, mc, "marker")
              ELSE st
        linestyle == KwGet(s1.kw, "linestyle", PyNone)
    IN IF s1.raised # "none" THEN s1
       ELSE IF linestyle = PyNone
       THEN [s1 EXCEPT !.kw = SetItem(s1.kw, "linestyle", "none")]
       ELSE IF linestyle = "cycle"
       THEN SetFromCycler(s1, mc, "linestyle")
       ELSE s1

\* a line policy that cycles the marker when none is given, as the
\* no-line policy does
set_props_default_line_markers(st, mc) ==
    LET has_line == "linestyle" \in DOMAIN st.kw
        s1 == IF (~has_line) \/ (has_line /\ st.kw["linestyle"] = "cycle")
              THEN SetFromCycler(st, mc, "linestyle")
              ELSE IF has_line /\ st.kw["linestyle"] = PyNone
              THEN [st EXCEPT !.kw = SetItem(st.kw, "linestyle", "none")]
              ELSE st
    IN IF s1.raised # "none" THEN s1
       ELSE IF "marker" \notin DOMAIN s1.kw \/ s1.kw["marker"] = "cycle"
       THEN SetFromCycler(s1, mc, "marker")
       ELSE [s1 EXCEPT !.kw = SetItem(s1.kw, "marker", PyNone)]

\* a line policy that never draws a marker
set_props_default_line_nomarker(st, mc) ==
    LET has_line == "linestyle" \in DOMAIN st.kw
        s1 == IF (~has_line) \/ (has_line /\ st.kw["linestyle"] = "cycle")
              THEN SetFromCycler(st, mc, "linestyle")
              ELSE IF has_line /\ st.kw["linestyle"] = PyNone
              THEN [st EXCEPT !.kw = SetItem(st.kw, "linestyle", "none")]
              ELSE st
    IN IF s1.raised # "none" THEN s1
       ELSE [s1 EXCEPT !.kw = SetItem(s1.kw, "marker", PyNone)]

\* a line policy that takes a linestyle of None for an omitted one
set_props_default_line_noneomitted(st, mc) ==
    LET has_line == "linestyle" \in DOMAIN st.kw
        s1 == IF (~has_line) \/ st.kw["linestyle"] \in {"cycle", PyNone}
              THEN SetFromCycler(st, mc, "linestyle")
              ELSE st
    IN IF s1.raised # "none" THEN s1
       ELSE IF "marker" \in DOMAIN s1.kw /\ s1.kw["marker"] = "cycle"
       THEN SetFromCycler(s1, mc, "marker")
       ELSE [s1 EXCEPT !.kw = SetItem(s1.kw, "marker", PyNone)]

\* HickoryAxes._set_props_default_line
set_props_default_line(st, mc) ==
    LET has_line == "linestyle" \in DOMAIN st.kw
        s1 == IF (~has_line) \/ (has_line /\ st.kw["linestyle"] = "cycle")
              THEN SetFromCycler(st, mc, "linestyle")
              ELSE IF has_line /\ st.kw["linestyle"] = PyNone
              THEN [st EXCEPT !.kw = SetItem(st.kw, "linestyle", "none")]
              ELSE st
    IN IF s1.raised # "none" THEN s1
       ELSE IF "marker" \in DOMAIN s1.kw /\ s1.kw["marker"] = "cycle"
       THEN SetFromCycler(s1, mc, "marker")
       ELSE [s1 EXCEPT !.kw = SetItem(s1.kw, "marker", PyNone)]

\* the statement "if 'color' in kw: if kw['color'] in COLORS: ..." that
\* plot, errorbar and curve run before they delegate
lookup_color(st) ==
    IF st.raised # "none" THEN st
    ELSE IF "color" \in DOMAIN st.kw /\ st.kw["color"] \in DOMAIN COLORS
    THEN [st EXCEPT !.kw = SetItem(st.kw, "color", COLORS[st.kw["color"]])]
    ELSE st

\* a plot and errorbar body that resolves marker and linestyle before color
resolve_noline_color_last(kw, heap, mc) ==
    LET s1 == set_props_default_noline([kw |-> kw, heap |-> heap, raised |-> "none"], mc)
        s2 == IF s1.raised # "none" THEN s1 ELSE set_color(s1, mc)
    IN lookup_color(s2)

\* the body of HickoryAxes.plot and HickoryAxes.errorbar up to the super() call
resolve_noline(kw, heap, mc) ==
    LET s1 == set_color([kw |-> kw, heap |-> heap, raised |-> "none"], mc)
        s2 == IF s1.raised # "none" THEN s1 ELSE set_props_default_noline(s1, mc)
    IN lookup_color(s2)

\* the body of HickoryAxes.curve up to the super() call
resolve_line(kw, heap, mc) ==
    LET s1 == set_color([kw |-> kw, heap |-> heap, raised |-> "none"], mc)
        s2 == IF s1.raised # "none" THEN s1 ELSE set_props_default_line(s1, mc)
    IN lookup_color(s2)

----------------------------------------------------------------------------
(* Inputs of the drawing calls *)

MarkerArgs == {"cycle", PyNone, "circle"}
LinestyleArgs == {"cycle", PyNone, "dashed"}
ColorArgs == {"red", "#00ff00"}

\* the style keywords of one drawing call: each of marker, linestyle and
\* color either absent or one of the values above
StyleKws ==
    UNION {{kw \in [S -> MarkerArgs \cup LinestyleArgs \cup ColorArgs] :
               /\ "marker" \in S => kw["marker"] \in MarkerArgs
               /\ "linestyle" \in S => kw["linestyle"] \in LinestyleArgs
               /\ "color" \in S => kw["color"] \in ColorArgs}
           : S \in SUBSET Names}

----------------------------------------------------------------------------
(* Operations on axes *)

\* HickoryAxes(..., cycler=cycler): cycler None (0 here) gets a default one
NewAxes(cycler) ==
    /\ IF cycler = 0
       THEN LET r == get_default_multi_cycler(cycles) IN
              /\ cycles' = r.heap
              /\ mcs' = Append(mcs, r.cycles)
              /\ ncalls' = Append(ncalls, [k \in Names |-> 0])
              /\ axes' = Append(axes, [cycler |-> Len(mcs) + 1])
       ELSE /\ axes' = Append(axes, [cycler |-> cycler])
            /\ UNCHANGED <<cycles, mcs, ncalls>>
    /\ pre' = cycles
    /\ hist' = Append(hist, NoHist)
    /\ last' = [op |-> "axes", target |-> Len(axes) + 1, arg |-> cycler,
                raised |-> "none", value |-> PyNone]
    /\ rendered' = NoCall
    /\ nops' = nops + 1
    /\ calls' = << >>
    /\ UNCHANGED <<held, figs>>

\* what a drawing call on axes a leaves behind: the heap as the resolution
\* left it, the renderer called only if nothing was raised
Drawn(a, op, prim, kw, st) ==
    /\ nops' = nops + 1
    /\ calls' = << >>
    /\ pre' = cycles
    /\ cycles' = st.heap
    /\ rendered' = IF st.raised = "none"
                   THEN [ax |-> a, prim |-> prim, kw |-> st.kw]
                   ELSE NoCall
    /\ last' = [op |-> op, target |-> a, arg |-> kw,
                raised |-> st.raised, value |-> PyNone]
    /\ hist' = [hist EXCEPT ![a] =
                  [plots |-> @.plots + (IF op = "plot" THEN 1 ELSE 0),
                   nolines |-> @.nolines + (IF op \in {"plot", "errorbar"} THEN 1 ELSE 0),
                   omitted |-> @.omitted /\ "marker" \notin DOMAIN kw,
                   raised |-> @.raised \/ st.raised # "none"]]
    /\ UNCHANGED <<held, mcs, axes, ncalls, figs>>

\* axes[a].plot(x, y, **kw)
plot(a, kw) ==
    Drawn(a, "plot", "plot", kw, resolve_noline(kw, cycles, mcs[axes[a].cycler]))

\* axes[a].errorbar(x, y, **kw)
errorbar(a, kw) ==
    Drawn(a, "errorbar", "errorbar", kw, resolve_noline(kw, cycles, mcs[axes[a].cycler]))

\* axes[a].curve(x, y, **kw), which delegates to the renderer's plot
curve(a, kw) ==
    Drawn(a, "curve", "plot", kw, resolve_line(kw, cycles, mcs[axes[a].cycler]))

\* axes[a].function(func, **kw): evaluates func on a grid and calls curve
function(a, kw) ==
    Drawn(a, "function", "plot", kw, resolve_line(kw, cycles, mcs[axes[a].cycler]))

Next ==
    \/ nops < MaxOps /\ \E kw \in CyclerKws : NewMultiCycler(kw)
    \/ nops < MaxOps /\ \E c \in 0..Len(mcs) : NewAxes(c)
    \/ nops < MaxOps /\ \E a \in 1..Len(axes), kw \in StyleKws : plot(a, kw)
    \/ nops < MaxOps /\ \E a \in 1..Len(axes), kw \in StyleKws : errorbar(a, kw)
    \/ nops < MaxOps /\ \E a \in 1..Len(axes), kw \in StyleKws : curve(a, kw)
    \/ nops < MaxOps /\ \E a \in 1..Len(axes), kw \in StyleKws : function(a, kw)

Spec == Init /\ [][Next]_vars

\* the same operations in longer runs, on fewer style keywords
SeqKws ==
    {kw \in StyleKws : /\ "linestyle" \notin DOMAIN kw
                       /\ \A k \in DOMAIN kw : kw[k] \in {"cycle", "red"}}

NextSeq ==
    \/ nops < MaxSeqOps /\ \E kw \in CyclerKws : NewMultiCycler(kw)
    \/ nops < MaxSeqOps /\ \E c \in 0..Len(mcs) : NewAxes(c)
    \/ nops < MaxSeqOps /\ \E a \in 1..Len(axes), kw \in SeqKws : plot(a, kw)
    \/ nops < MaxSeqOps /\ \E a \in 1..Len(axes), kw \in SeqKws : errorbar(a, kw)
    \/ nops < MaxSeqOps /\ \E a \in 1..Len(axes), kw \in SeqKws : curve(a, kw)

SpecSeq == Init /\ [][NextSeq]_vars

\* runs in which a drawing call can follow a failed one: style keywords
\* either absent or literal
OrderKws ==
    {kw \in StyleKws : \A k \in DOMAIN kw : kw[k] \in {"circle", "dashed", "red"}}

NextOrder ==
    \/ nops < MaxOrderOps /\ \E kw \in CyclerKws : NewMultiCycler(kw)
    \/ nops < MaxOrderOps /\ \E c \in 0..Len(mcs) : NewAxes(c)
    \/ nops < MaxOrderOps /\ \E a \in 1..Len(axes), kw \in OrderKws : plot(a, kw)
    \/ nops < MaxOrderOps /\ \E a \in 1..Len(axes), kw \in OrderKws : errorbar(a, kw)
    \/ nops < MaxOrderOps /\ \E a \in 1..Len(axes), kw \in OrderKws : curve(a, kw)

SpecOrder == Init /\ [][NextOrder]_vars

----------------------------------------------------------------------------
(* hickory/axes.py: HickoryAxes.hist.  Numbers are integers counting       *)
(* twentieths, so 20 is 1.0, 2 is 0.1 and 1 is 0.05.  An optional number   *)
(* is << >> for None and <<v>> for v; a range is << >> or <<lo, hi>>; the  *)
(* positional arguments are << >> or <<x>>, x = [kind, vals] being an      *)
(* ndarray or a plain list of numbers.                                     *)

None == << >>

RECURSIVE array_min(_)
array_min(vals) ==
    IF Len(vals) = 1 THEN vals[1]
    ELSE LET m == array_min(Tail(vals)) IN IF vals[1] < m THEN vals[1] ELSE m

RECURSIVE array_max(_)
array_max(vals) ==
    IF Len(vals) = 1 THEN vals[1]
    ELSE LET m == array_max(Tail(vals)) IN IF vals[1] > m THEN vals[1] ELSE m

\* x.min() and x.max(): a list has no such method, an empty array no minimum
x_min(x) ==
    IF x.kind # "ndarray" THEN [raised |-> "AttributeError", value |-> 0]
    ELSE IF Len(x.vals) = 0 THEN [raised |-> "ValueError: zero-size array", value |-> 0]
    ELSE [raised |-> "none", value |-> array_min(x.vals)]

x_max(x) ==
    IF x.kind # "ndarray" THEN [raised |-> "AttributeError", value |-> 0]
    ELSE IF Len(x.vals) = 0 THEN [raised |-> "ValueError: zero-size array", value |-> 0]
    ELSE [raised |-> "none", value |-> array_max(x.vals)]

\* round(n / d) for d # 0: the nearest integer, a tie going to the even one
round(n, d) ==
    LET sn == IF d < 0 THEN -n ELSE n
        sd == IF d < 0 THEN -d ELSE d
        q == sn \div sd
        r == sn - q * sd
    IN IF 2 * r < sd THEN q
       ELSE IF 2 * r > sd THEN q + 1
       ELSE IF q % 2 = 0 THEN q ELSE q + 1

\* what dividing by a binsize of 0 raises: ZeroDivisionError between
\* Python numbers; with a bound taken from the array the quotient is inf
\* or nan, which int(round()) rejects
by_zero(range, numpy) ==
    IF ~numpy THEN "ZeroDivisionError"
    ELSE IF range[2] = range[1] THEN "ValueError: cannot convert float NaN to integer"
    ELSE "OverflowError"

\* a bin count that is not clamped
hist_bins_unclamped(range, binsize, numpy) ==
    IF binsize = 0
    THEN [raised |-> by_zero(range, numpy), bins |-> None]
    ELSE [raised |-> "none", bins |-> <<round(range[2] - range[1], binsize)>>]

\* bins = int(round((range[1] - range[0]) / binsize)); if bins < 1: bins = 1
hist_bins(range, binsize, numpy) ==
    IF binsize = 0
    THEN [raised |-> by_zero(range, numpy), bins |-> None]
    ELSE LET bins == round(range[2] - range[1], binsize) IN
         [raised |-> "none", bins |-> <<IF bins < 1 THEN 1 ELSE bins>>]

\* the range the binsize branch works out when none is given
hist_range(args, min, max) ==
    IF Len(args) = 0
    THEN [raised |-> "ValueError: send data in position 1", range |-> None]
    ELSE LET x == args[1]
             lo == IF min = None THEN x_min(x) ELSE [raised |-> "none", value |-> min[1]]
             hi == IF max = None THEN x_max(x) ELSE [raised |-> "none", value |-> max[1]]
         IN IF lo.raised # "none" THEN [raised |-> lo.raised, range |-> None]
            ELSE IF hi.raised # "none" THEN [raised |-> hi.raised, range |-> None]
            ELSE [raised |-> "none", range |-> <<lo.value, hi.value>>]

\* a hist that asks for no data when both min and max are given
hist_kw_lenient(args, binsize, bins, range, min, max) ==
    IF binsize = None
    THEN [raised |-> "none", bins |-> bins, range |-> range]
    ELSE LET r == IF range # None THEN [raised |-> "none", range |-> range]
                  ELSE IF min # None /\ max # None
                  THEN [raised |-> "none", range |-> <<min[1], max[1]>>]
                  ELSE hist_range(args, min, max)
         IN IF r.raised # "none"
            THEN [raised |-> r.raised, bins |-> bins, range |-> range]
            ELSE LET b == hist_bins(r.range, binsize[1],
                                    range = None /\ (min = None \/ max = None)) IN
                 [raised |-> b.raised, bins |-> b.bins, range |-> r.range]

\* a hist in which min= and max= take precedence over range=
hist_kw_minmax_first(args, binsize, bins, range, min, max) ==
    IF binsize = None
    THEN [raised |-> "none", bins |-> bins, range |-> range]
    ELSE LET derive == range = None \/ min # None \/ max # None
             r == IF derive THEN hist_range(args, min, max)
                  ELSE [raised |-> "none", range |-> range]
         IN IF r.raised # "none"
            THEN [raised |-> r.raised, bins |-> bins, range |-> range]
            ELSE LET b == hist_bins(r.range, binsize[1],
                                    derive /\ (min = None \/ max = None)) IN
                 [raised |-> b.raised, bins |-> b.bins, range |-> r.range]

\* HickoryAxes.hist up to the super() call: what was raised, or the bins
\* and range handed on
hist_kw(args, binsize, bins, range, min, max) ==
    IF binsize = None
    THEN [raised |-> "none", bins |-> bins, range |-> range]
    ELSE LET r == IF range = None THEN hist_range(args, min, max)
                  ELSE [raised |-> "none", range |-> range]
         IN IF r.raised # "none"
            THEN [raised |-> r.raised, bins |-> bins, range |-> range]
            ELSE LET b == hist_bins(r.range, binsize[1],
                                    range = None /\ (min = None \/ max = None)) IN
                 [raised |-> b.raised, bins |-> b.bins, range |-> r.range]

\* Inputs of hist
HistArgs ==
    {<< >>} \cup
    {<<[kind |-> "ndarray", vals |-> v]>> :
        v \in {<<0, 20>>, <<1, 0>>, <<30, -10, 3>>, << >>}} \cup
    {<<[kind |-> "list", vals |-> <<0, 20>>]>>}
BinsizeArgs == {None, <<2>>, <<20>>, <<3>>, <<0>>, <<-2>>}
BinsArgs == {None, <<5>>}
RangeArgs == {None, <<0, 20>>, <<0, 1>>, <<20, 0>>}
MinArgs == {None, <<5>>}
MaxArgs == {None, <<15>>}

\* axes[a].hist(*args, binsize=, bins=, range=, min=, max=)
Hist(a, args, binsize, bins, range, min, max) ==
    /\ LET r == hist_kw(args, binsize, bins, range, min, max) IN
         /\ rendered' = IF r.raised = "none"
                        THEN [ax |-> a, prim |-> "hist",
                              kw |-> [bins |-> r.bins, range |-> r.range]]
                        ELSE NoCall
         /\ last' = [op |-> "hist", target |-> a,
                     arg |-> [args |-> args, binsize |-> binsize, bins |-> bins,
                              range |-> range, min |-> min, max |-> max],
                     raised |-> r.raised, value |-> PyNone]
    /\ pre' = cycles
    /\ nops' = nops + 1
    /\ calls' = << >>
    /\ UNCHANGED <<cycles, held, mcs, axes, ncalls, hist, figs>>

NextHist ==
    \/ nops < MaxHistOps /\ NewAxes(0)
    \/ nops < MaxHistOps /\ \E a \in 1..Len(axes), args \in HistArgs,
                               binsize \in BinsizeArgs, bins \in BinsArgs,
                               range \in RangeArgs, min \in MinArgs, max \in MaxArgs :
                               Hist(a, args, binsize, bins, range, min, max)

SpecHist == Init /\ [][NextHist]_vars

\* name lookups between the drawing calls of default axes
NextNames ==
    \/ nops < MaxNameOps /\ \E v \in MarkerInputs : GetMarker(v)
    \/ nops < MaxNameOps /\ NewAxes(0)
    \/ nops < MaxNameOps /\ \E a \in 1..Len(axes) : plot(a, << >>)

SpecNames == Init /\ [][NextNames]_vars

----------------------------------------------------------------------------
(* hickory/plot_containers.py: Plot and Table.  An entry of figs keeps the  *)
(* ids of the container's axes and, as history, the cycler= argument it     *)
(* was constructed with (0 for None).  A matplotlib Axes, which has no      *)
(* cycler of its own, is an entry of axes whose cycler is 0.  The fields    *)
(* legend, aratio and ax_index are the attributes _legend, aratio and       *)
(* _ax_index; an aspect ratio is written as its repr.                       *)

\* the value of an attribute that has not been set
NoAttr == -1

\* A container record holds the object's fields kind, axes, legend, aratio,
\* ax_index and the cycler it was given, and three fields of history: the
\* axes that next() has yielded since the last iter(), and how often
\* iter() and next() were called on it.

\* HickoryAxes.__init__ on the heaps w = [cycles, mcs, ncalls, axes, hist]
HickoryAxes_init(w, cycler) ==
    IF cycler = 0
    THEN LET r == get_default_multi_cycler(w.cycles) IN
         [cycles |-> r.heap,
          mcs |-> Append(w.mcs, r.cycles),
          ncalls |-> Append(w.ncalls, [k \in Names |-> 0]),
          axes |-> Append(w.axes, [cycler |-> Len(w.mcs) + 1]),
          hist |-> Append(w.hist, NoHist)]
    ELSE [w EXCEPT !.axes = Append(@, [cycler |-> cycler]),
                   !.hist = Append(@, NoHist)]

\* _PlotContainer.add_subplot: cycler = kwargs.pop('cycler', None), then a
\* HickoryAxes constructed with cycler=cycler
add_subplot(w, cycler) == HickoryAxes_init(w, cycler)

\* Figure.subplots on a Table: add_subplot(..., **subplot_kw) once per cell
RECURSIVE subplots(_, _, _)
subplots(w, ncells, cycler) ==
    IF ncells = 0 THEN w ELSE subplots(add_subplot(w, cycler), ncells - 1, cycler)

\* Table(nrows=, ncols=, cycler=cycler), ncells = nrows * ncols: the cycler,
\* when not None, goes into the subplot_kw shared by all cells
NewTable(ncells, cycler) ==
    /\ LET w == subplots([cycles |-> cycles, mcs |-> mcs, ncalls |-> ncalls,
                          axes |-> axes, hist |-> hist], ncells, cycler) IN
         /\ cycles' = w.cycles
         /\ mcs' = w.mcs
         /\ ncalls' = w.ncalls
         /\ axes' = w.axes
         /\ hist' = w.hist
    /\ figs' = Append(figs, [kind |-> "Table",
                             axes |-> [i \in 1..ncells |-> Len(axes) + i],
                             legend |-> PyNone, aratio |-> PyNone,
                             ax_index |-> NoAttr, given |-> cycler,
                             yielded |-> << >>, iters |-> 0, nexts |-> 0])
    /\ pre' = cycles
    /\ last' = [op |-> "Table", target |-> Len(figs) + 1, arg |-> cycler,
                raised |-> "none", value |-> PyNone]
    /\ rendered' = NoCall
    /\ nops' = nops + 1
    /\ calls' = << >>
    /\ UNCHANGED held

\* Plot(cycler=cycler): the figure comes from matplotlib.pyplot.figure and
\* its one axes from fig.subplots(subplot_kw=subplot_kw), a matplotlib
\* Axes; the cycler argument is not used
NewPlot(cycler) ==
    /\ axes' = Append(axes, [cycler |-> 0])
    /\ hist' = Append(hist, NoHist)
    /\ figs' = Append(figs, [kind |-> "Plot", axes |-> <<Len(axes) + 1>>,
                             legend |-> PyNone, aratio |-> "GOLDEN_ARATIO",
                             ax_index |-> NoAttr, given |-> cycler,
                             yielded |-> << >>, iters |-> 0, nexts |-> 0])
    /\ pre' = cycles
    /\ last' = [op |-> "Plot", target |-> Len(figs) + 1, arg |-> cycler,
                raised |-> "none", value |-> PyNone]
    /\ rendered' = NoCall
    /\ nops' = nops + 1
    /\ calls' = << >>
    /\ UNCHANGED <<cycles, held, mcs, ncalls>>

\* figs[p].plot(x, y, **kw) on a Plot: __getattr__ hands the call to
\* self.ax, whose plot is the renderer's
Plot_plot(p, kw) ==
    /\ figs[p].kind = "Plot"
    /\ rendered' = [ax |-> figs[p].axes[1], prim |-> "plot", kw |-> kw]
    /\ last' = [op |-> "Plot.plot", target |-> p, arg |-> kw,
                raised |-> "none", value |-> PyNone]
    /\ pre' = cycles
    /\ nops' = nops + 1
    /\ calls' = << >>
    /\ UNCHANGED <<cycles, held, mcs, axes, ncalls, hist, figs>>

\* the axes that are HickoryAxes
Hickory == {a \in 1..Len(axes) : axes[a].cycler # 0}

\* style keywords of the drawing calls on containers
FigKws == {<< >>, [linestyle |-> "cycle"], [marker |-> "cycle"]}

\* cyclers a caller builds for a container
FigCyclerKws == {[k \in Names |-> Raw(l)] : l \in {<<"red", "B">>, <<"A", "B", "C">>}}

NextFig ==
    \/ nops < MaxFigOps /\ \E kw \in FigCyclerKws : NewMultiCycler(kw)
    \/ nops < MaxFigOps /\ NewAxes(0)
    \/ nops < MaxFigOps /\ \E n \in 1..2, c \in 0..Len(mcs) : NewTable(n, c)
    \/ nops < MaxFigOps /\ \E c \in 0..Len(mcs) : NewPlot(c)
    \/ nops < MaxFigOps /\ \E p \in 1..Len(figs), kw \in FigKws : Plot_plot(p, kw)
    \/ nops < MaxFigOps /\ \E a \in Hickory, kw \in FigKws : plot(a, kw)
    \/ nops < MaxFigOps /\ \E a \in Hickory, kw \in FigKws : curve(a, kw)

SpecFig == Init /\ [][NextFig]_vars

----------------------------------------------------------------------------
(* hickory/plot_containers.py: legend, show and savefig;                    *)
(* hickory/convenience.py: plot and plot_hist.  A step of show, savefig or  *)
(* a convenience function threads a record o = [raised, calls]; a step      *)
(* after a raise is not executed.                                           *)

\* what a caller passes as legend=
LegendArgs == {PyNone, "False", "True", "Legend(loc='upper left')"}

\* what a caller passes as aratio=
AratioArgs == {PyNone, "1.0"}

\* Plot._set_legend: a Legend() for True, the argument itself when it is
\* something else that is true, None otherwise
set_legend(legend) ==
    IF legend = "True" THEN "Legend()"
    ELSE IF legend \notin {PyNone, "False"} THEN legend
    ELSE PyNone

\* Plot.__init__ on the heaps w = [axes, hist, figs]: with figsize None
\* the figure size is [6.4, 6.4 * aratio], a TypeError when aratio is None
Plot_init(w, figsize, aratio, legend, cycler) ==
    IF figsize = PyNone /\ aratio = PyNone
    THEN [raised |-> "TypeError", w |-> w]
    ELSE [raised |-> "none",
          w |-> [axes |-> Append(w.axes, [cycler |-> 0]),
                 hist |-> Append(w.hist, NoHist),
                 figs |-> Append(w.figs,
                     [kind |-> "Plot", axes |-> <<Len(w.axes) + 1>>,
                      legend |-> set_legend(legend), aratio |-> aratio,
                      ax_index |-> NoAttr, given |-> cycler,
                      yielded |-> << >>, iters |-> 0, nexts |-> 0])]]

\* "if self._legend: self.legend(*self._legend.args, **self._legend.kw)":
\* a Legend has the attributes loc, frame, borderaxespad and framealpha,
\* so reading args raises before self.legend is called
legend_maybe(fig, o) ==
    IF o.raised # "none" THEN o
    ELSE IF fig.legend # PyNone THEN [o EXCEPT !.raised = "AttributeError"]
    ELSE o

\* _PlotContainer._set_aratio_maybe: set_aratio works on self.ax, which a
\* Plot has and a Table has not
set_aratio_maybe(fig, o) ==
    IF o.raised # "none" THEN o
    ELSE IF fig.aratio = PyNone THEN o
    ELSE IF fig.kind = "Plot" THEN [o EXCEPT !.calls = Append(@, "ax.set_aspect")]
    ELSE [o EXCEPT !.raised = "AttributeError"]

\* the calls on self.fig, which a Plot has and a Table has not
on_fig(fig, o, what) ==
    IF o.raised # "none" THEN o
    ELSE IF fig.kind = "Plot" THEN [o EXCEPT !.calls = @ \o what]
    ELSE [o EXCEPT !.raised = "AttributeError"]

\* _PlotContainer.savefig(file)
savefig(fig, o) ==
    on_fig(fig, set_aratio_maybe(fig, legend_maybe(fig, o)), <<"fig.savefig">>)

\* _PlotContainer.show()
show(fig, o) ==
    on_fig(fig, set_aratio_maybe(fig, legend_maybe(fig, o)),
           <<"fig.show", "pyplot.show">>)

NoCalls == [raised |-> "none", calls |-> << >>]

\* plt = Plot(aratio=aratio, legend=legend)
NewPlotWith(aratio, legend) ==
    /\ LET r == Plot_init([axes |-> axes, hist |-> hist, figs |-> figs],
                          PyNone, aratio, legend, 0) IN
         /\ axes' = r.w.axes
         /\ hist' = r.w.hist
         /\ figs' = r.w.figs
         /\ last' = [op |-> "Plot", target |-> Len(figs) + 1,
                     arg |-> [aratio |-> aratio, legend |-> legend],
                     raised |-> r.raised, value |-> PyNone]
    /\ pre' = cycles
    /\ rendered' = NoCall
    /\ nops' = nops + 1
    /\ calls' = << >>
    /\ UNCHANGED <<cycles, held, mcs, ncalls>>

\* what show() or savefig() on figs[p] leaves behind
Output(p, op, o) ==
    /\ calls' = o.calls
    /\ last' = [op |-> op, target |-> p, arg |-> << >>,
                raised |-> o.raised, value |-> PyNone]
    /\ pre' = cycles
    /\ rendered' = NoCall
    /\ nops' = nops + 1
    /\ UNCHANGED <<cycles, held, mcs, axes, ncalls, hist, figs>>

\* figs[p].show()
Show(p) == Output(p, "show", show(figs[p], NoCalls))

\* figs[p].savefig(file)
Savefig(p) == Output(p, "savefig", savefig(figs[p], NoCalls))

\* the arguments of a convenience call: xerr, yerr, legend, aratio, plt (0 for
\* None, else a Plot) and the keywords file and show, each absent or given;
\* legend and aratio are read only when a Plot is made
ConvKws ==
    UNION {[S -> {"a.png", "True", "False"}] : S \in SUBSET {"file", "show"}}

ConvArgs ==
    {a \in [xerr : {PyNone, "xerr"}, yerr : {PyNone, "yerr"},
            legend : {PyNone, "True"},
            aratio : AratioArgs, plt : 0..Len(figs), kw : ConvKws] :
        /\ "file" \in DOMAIN a.kw => a.kw["file"] = "a.png"
        /\ "show" \in DOMAIN a.kw => a.kw["show"] # "a.png"
        /\ a.plt # 0 => (a.legend = PyNone /\ a.aratio = PyNone
                         /\ figs[a.plt].kind = "Plot")}

\* config['show'] as configuration.py sets it at import: False in a
\* Jupyter kernel, True elsewhere; it is read only when show= is absent
Configs(a) == IF "show" \in DOMAIN a.kw THEN {TRUE} ELSE BOOLEAN

\* the body shared by convenience.plot and convenience.plot_hist, draw
\* being the drawing call each of them issues on the Plot
convenience(a, config_show, draw) ==
    LET file == KwGet(a.kw, "file", PyNone)
        show_default == file = PyNone
        show_it == IF "show" \in DOMAIN a.kw THEN a.kw["show"] = "True"
                   ELSE config_show
        w0 == [axes |-> axes, hist |-> hist, figs |-> figs]
        made == IF a.plt = 0
                THEN Plot_init(w0, PyNone, a.aratio, a.legend, 0)
                ELSE [raised |-> "none", w |-> w0]
        p == IF a.plt = 0 THEN Len(figs) + 1 ELSE a.plt
    IN IF made.raised # "none"
       THEN [raised |-> made.raised, calls |-> << >>, w |-> w0, value |-> 0]
       ELSE LET o1 == [raised |-> "none", calls |-> <<draw>>]
                o2 == IF file # PyNone THEN savefig(made.w.figs[p], o1) ELSE o1
                o3 == IF o2.raised = "none" /\ show_it
                      THEN show(made.w.figs[p], o2) ELSE o2
            IN [raised |-> o3.raised, calls |-> o3.calls, w |-> made.w,
                value |-> IF o3.raised = "none" THEN p ELSE 0]

\* what a convenience call leaves behind
Convenient(op, a, config_show, r) ==
    /\ axes' = r.w.axes
    /\ hist' = r.w.hist
    /\ figs' = r.w.figs
    /\ calls' = r.calls
    /\ last' = [op |-> op, target |-> a.plt,
                arg |-> [xerr |-> a.xerr, yerr |-> a.yerr, legend |-> a.legend,
                         aratio |-> a.aratio, kw |-> a.kw,
                         config_show |-> config_show, nfigs |-> Len(figs)],
                raised |-> r.raised, value |-> PyNone, returned |-> r.value]
    /\ pre' = cycles
    /\ rendered' = NoCall
    /\ nops' = nops + 1
    /\ UNCHANGED <<cycles, held, mcs, ncalls>>

\* hickory.plot(x, y, xerr=, yerr=, legend=, aratio=, plt=, **kw)
conv_plot(a, config_show) ==
    Convenient("convenience.plot", a, config_show,
        convenience(a, config_show,
            IF a.xerr # PyNone \/ a.yerr # PyNone
            THEN "plt.errorbar" ELSE "plt.plot"))

\* hickory.plot_hist(x, legend=, aratio=, plt=, **kw)
conv_plot_hist(a, config_show) ==
    /\ a.xerr = PyNone /\ a.yerr = PyNone
    /\ Convenient("convenience.plot_hist", a, config_show,
                  convenience(a, config_show, "plt.hist"))

NextConv ==
    \/ nops < MaxConvOps /\ \E aratio \in AratioArgs \cup {"GOLDEN_ARATIO"},
                               legend \in LegendArgs : NewPlotWith(aratio, legend)
    \/ nops < MaxConvOps /\ \E p \in 1..Len(figs) : Show(p)
    \/ nops < MaxConvOps /\ \E p \in 1..Len(figs) : Savefig(p)
    \/ nops < MaxConvOps /\ \E a \in ConvArgs : \E c \in Configs(a) : conv_plot(a, c)
    \/ nops < MaxConvOps /\ \E a \in ConvArgs : \E c \in Configs(a) : conv_plot_hist(a, c)

SpecConv == Init /\ [][NextConv]_vars

----------------------------------------------------------------------------
(* Iteration over a container *)

\* an __iter__ that leaves a cursor that is already set where it is
container_iter_resume(fig) ==
    IF fig.ax_index = NoAttr THEN [fig EXCEPT !.ax_index = 0] ELSE fig

\* _PlotContainer.__iter__: the cursor goes to 0 and the container itself
\* is the iterator
container_iter(fig) == [fig EXCEPT !.ax_index = 0]

\* _PlotContainer.__next__: without a cursor (no iter() yet) reading it
\* raises AttributeError; at the end of the list StopIteration; else the
\* axes at the cursor, the cursor moving on. An axes yielded is given by
\* its id, 0 stands for none.
container_next(fig) ==
    IF fig.ax_index = NoAttr
    THEN [raised |-> "AttributeError", value |-> 0, fig |-> fig]
    ELSE IF fig.ax_index = Len(fig.axes)
    THEN [raised |-> "StopIteration", value |-> 0, fig |-> fig]
    ELSE [raised |-> "none", value |-> fig.axes[fig.ax_index + 1],
          fig |-> [fig EXCEPT !.ax_index = @ + 1]]

\* what iter() and next() on figs[p] leave behind
Iterated(p, op, fig, raised, value) ==
    /\ figs' = [figs EXCEPT ![p] = fig]
    /\ last' = [op |-> op, target |-> p, arg |-> << >>, raised |-> raised,
                value |-> PyNone, returned |-> value]
    /\ pre' = cycles
    /\ rendered' = NoCall
    /\ calls' = << >>
    /\ nops' = nops + 1
    /\ UNCHANGED <<cycles, held, mcs, axes, ncalls, hist>>

\* iter(figs[p]), which returns figs[p]
Iter(p) ==
    Iterated(p, "iter",
             [container_iter(figs[p]) EXCEPT !.yielded = << >>, !.iters = @ + 1],
             "none", p)

\* next(figs[p])
NextAxes(p) ==
    LET r == container_next(figs[p]) IN
    Iterated(p, "next",
             [r.fig EXCEPT !.nexts = @ + 1,
                           !.yielded = IF r.raised = "none"
                                       THEN Append(@, r.value) ELSE @],
             r.raised, r.value)

NextIter ==
    \/ nops < MaxIterOps /\ \E n \in 1..2 : NewTable(n, 0)
    \/ nops < MaxIterOps /\ NewPlot(0)
    \/ nops < MaxIterOps /\ \E p \in 1..Len(figs) : Iter(p)
    \/ nops < MaxIterOps /\ \E p \in 1..Len(figs) : NextAxes(p)

SpecIter == Init /\ [][NextIter]_vars

----------------------------------------------------------------------------
(* Vocabulary of the properties *)

\* the (MultiCycler, key) pairs under which cycle id is registered
Owners(id) ==
    {mk \in (1..Len(mcs)) \X Names :
        mk[2] \in DOMAIN mcs[mk[1]] /\ mcs[mk[1]][mk[2]] = id}

\* what a cycle with no items dispenses
Nothing == "<StopIteration>"

\* the k-th value a cycle over items dispenses, k >= 1
Nth(items, k) ==
    IF Len(items) = 0 THEN Nothing ELSE items[((k - 1) % Len(items)) + 1]

\* the value at the cursor of cycle id in heap
Peek(heap, id) ==
    IF Len(heap[id].items) = 0 THEN Nothing
    ELSE heap[id].items[heap[id].pos + 1]

\* the last operation moved the cursor of cycle id by one place
Advanced(id) ==
    /\ Len(pre[id].items) > 0
    /\ cycles[id].pos = (pre[id].pos + 1) % Len(pre[id].items)

\* mc has a cycle registered for key
Has(mc, key) == key \in DOMAIN mc

\* the MultiCycler of axes a
AxMC(a) == mcs[axes[a].cycler]

\* before the last operation, mc was as get_default_multi_cycler() returns it
FreshDefault(mc) ==
    /\ DOMAIN mc = Names
    /\ pre[mc["marker"]] = itertools_cycle(DEFAULT_MARKERS)
    /\ pre[mc["linestyle"]] = itertools_cycle(DEFAULT_LINESTYLES)
    /\ pre[mc["color"]] = itertools_cycle(DEFAULT_COLORS)

\* the drawing calls under the no-line and under the line policy
NoLineOps == {"plot", "errorbar"}
LineOps == {"curve", "function"}

\* the last operation was a drawing call that reached the renderer
Rendered == rendered.prim # "none"

Omits(key) == key \notin DOMAIN last.arg

\* the color-name lookup of one value
resolve_color(v) == IF v \in DOMAIN COLORS THEN COLORS[v] ELSE v

\* no other axes uses the cycler of axes a, and its marker cycle is
\* registered once
SoleUser(a) ==
    /\ \A b \in 1..Len(axes) : b # a => axes[b].cycler # axes[a].cycler
    /\ Has(AxMC(a), "marker") => Cardinality(Owners(AxMC(a)["marker"])) = 1

\* axes a was constructed with cycler None: no Table handed it a cycler
FreshlyOwned(a) ==
    /\ axes[a].cycler # 0
    /\ \A t \in 1..Len(figs) :
            (\E i \in 1..Len(figs[t].axes) : figs[t].axes[i] = a) => figs[t].given = 0

----------------------------------------------------------------------------
(* Properties of the MultiCycler, under SpecCycler *)

\* C1: a property built from a list of length N dispenses the list in
\* order and wraps around: the n-th next(property) that returns gives
\* element ((n-1) mod N)+1 of the list, so call N+k gives what call k gave.
C1_CycleWraps ==
    (last.op = "next" /\ last.raised = "none") =>
        LET id == mcs[last.target][last.arg] IN
        Cardinality(Owners(id)) = 1 =>
            last.value = Nth(cycles[id].items, ncalls[last.target][last.arg])

\* a next() past the end of a singly registered list
C1_Witness ==
    /\ last.op = "next" /\ last.raised = "none"
    /\ Cardinality(Owners(mcs[last.target][last.arg])) = 1
    /\ ncalls[last.target][last.arg] > Len(cycles[mcs[last.target][last.arg]].items)

\* C2: next(p) changes the cursor of no other registered property, and
\* what next(q) returns depends only on how often next(q) was called,
\* whatever the construction (raw lists or ready-made cycles).
C2_IndependentCursors ==
    (last.op = "next" /\ last.raised = "none") =>
        LET mc == mcs[last.target] IN
        /\ \A k \in (DOMAIN mc) \ {last.arg} : cycles[mc[k]] = pre[mc[k]]
        /\ last.value = Nth(cycles[mc[last.arg]].items,
                            ncalls[last.target][last.arg])

\* C3: next(name) for a name not registered at construction raises the
\* unknown-property error, every time, and moves no cursor.
C3_UnknownRaises ==
    (last.op = "next" /\ last.arg \notin DOMAIN mcs[last.target]) =>
        (last.raised = "ValueError" /\ cycles = pre)

\* next("fontsize") on a cycler some of whose cursors have moved
C3_Witness ==
    /\ last.op = "next" /\ last.arg = "fontsize" /\ last.raised = "ValueError"
    /\ \E k \in DOMAIN mcs[last.target] : cycles[mcs[last.target][k]].pos > 0

\* C4: a construction from an empty list is rejected at construction, so
\* no registered cycle is empty and no next() fails for lack of values.
C4_EmptyRejected ==
    /\ (last.op = "get_cycler" /\ last.arg = << >>) => last.raised # "none"
    /\ (last.op = "MultiCycler" /\ \E k \in DOMAIN last.arg :
            ~last.arg[k].has_next /\ last.arg[k].list = << >>)
        => last.raised # "none"
    /\ \A m \in 1..Len(mcs) : \A k \in DOMAIN mcs[m] :
            Len(cycles[mcs[m][k]].items) > 0
    /\ last.raised # "StopIteration"

----------------------------------------------------------------------------
(* Properties of the style resolution, under Spec *)

\* C5: a plot() or errorbar() call given neither marker nor linestyle
\* reaches the renderer with the next value of the marker cycle as marker
\* and linestyle 'none'; on a fresh default cycler the marker is 'o'.
C5_NoLineDefault ==
    (last.op \in NoLineOps /\ Omits("marker") /\ Omits("linestyle")
            /\ Rendered) =>
        LET mc == AxMC(last.target) IN
        /\ Has(mc, "marker")
        /\ rendered.kw["marker"] = Peek(pre, mc["marker"])
        /\ rendered.kw["linestyle"] = "none"
        /\ FreshDefault(mc) => rendered.kw["marker"] = "o"

\* such a call on a default cycler whose first marker is already taken
C5_Witness ==
    /\ last.op \in NoLineOps /\ Omits("marker") /\ Omits("linestyle")
    /\ Rendered
    /\ rendered.kw["marker"] = "d" /\ rendered.kw["linestyle"] = "none"

\* C6: a curve() call given neither linestyle nor marker reaches the
\* renderer with the next value of the linestyle cycle as linestyle and
\* marker None, the marker cursor where it was; on a fresh default cycler
\* the linestyle is 'solid'.
C6_LineDefault ==
    (last.op \in LineOps /\ Omits("marker") /\ Omits("linestyle") /\ Rendered) =>
        LET mc == AxMC(last.target) IN
        /\ Has(mc, "linestyle")
        /\ rendered.kw["linestyle"] = Peek(pre, mc["linestyle"])
        /\ rendered.kw["marker"] = PyNone
        /\ Has(mc, "marker") => cycles[mc["marker"]] = pre[mc["marker"]]
        /\ FreshDefault(mc) => rendered.kw["linestyle"] = "solid"

\* such a call after the first linestyle was taken
C6_Witness ==
    /\ last.op \in LineOps /\ Omits("marker") /\ Omits("linestyle") /\ Rendered
    /\ rendered.kw["linestyle"] = "dashed" /\ rendered.kw["marker"] = PyNone

\* C7: curve(marker='cycle') takes exactly one value from the marker cycle
\* and hands it to the renderer as the marker.
C7_CurveMarkerCycle ==
    (last.op \in LineOps /\ ~Omits("marker") /\ last.arg["marker"] = "cycle"
            /\ Rendered) =>
        LET mc == AxMC(last.target) IN
        /\ Has(mc, "marker")
        /\ rendered.kw["marker"] = Peek(pre, mc["marker"])
        /\ Advanced(mc["marker"])

\* curve(marker='cycle') handing over the second default marker
C7_Witness ==
    /\ last.op \in LineOps /\ ~Omits("marker") /\ last.arg["marker"] = "cycle"
    /\ Rendered /\ rendered.kw["marker"] = "d"

\* C8: under the line policy a marker the caller supplies, other than the
\* sentinel 'cycle', is the marker handed to the renderer, after the name
\* lookup; it is not replaced by None.
C8_CurveLiteralMarker ==
    (last.op \in LineOps /\ ~Omits("marker") /\ last.arg["marker"] # "cycle"
            /\ Rendered) =>
        rendered.kw["marker"] = get_marker(last.arg["marker"]).value

----------------------------------------------------------------------------
(* Properties of sequences of drawing calls, under SpecSeq *)

\* C10, as claimed: on an axes where every drawing call so far omitted
\* marker, the k-th plot() call receives the k-th value of the marker cycle.
C10_KthPlotAsClaimed ==
    (last.op = "plot" /\ Rendered /\ hist[last.target].omitted) =>
        /\ Has(AxMC(last.target), "marker")
        /\ rendered.kw["marker"] =
            Nth(cycles[AxMC(last.target)["marker"]].items, hist[last.target].plots)

\* C10, amended: errorbar() calls take markers too, so it is the k-th call
\* among the plot() and errorbar() calls that receives the k-th value, on
\* an axes that is the only user of its cycler and none of whose calls raised.
C10_KthNoLineCall ==
    (last.op \in NoLineOps /\ Rendered
            /\ hist[last.target].omitted /\ ~hist[last.target].raised
            /\ SoleUser(last.target)) =>
        /\ Has(AxMC(last.target), "marker")
        /\ rendered.kw["marker"] =
            Nth(cycles[AxMC(last.target)["marker"]].items, hist[last.target].nolines)

\* a plot() after an errorbar(), past the end of a two-marker cycle
C10_Witness ==
    /\ last.op = "plot" /\ Rendered
    /\ hist[last.target].omitted /\ ~hist[last.target].raised
    /\ SoleUser(last.target)
    /\ Has(AxMC(last.target), "marker")
    /\ hist[last.target].plots < hist[last.target].nolines
    /\ hist[last.target].nolines > Len(cycles[AxMC(last.target)["marker"]].items)

----------------------------------------------------------------------------
(* Properties of what reaches the renderer, under Spec *)

\* the values cycle id can dispense
Items(id) == {cycles[id].items[i] : i \in 1..Len(cycles[id].items)}

\* C11: the style that plot(), errorbar() and curve() hand to the renderer
\* never has the sentinel 'cycle' as marker or linestyle: a 'cycle' in the
\* request has been replaced by a value of the cycler, whatever the other
\* keywords are (supplied, omitted, None or 'cycle').
C11_NoSentinel ==
    (last.op \in NoLineOps \cup LineOps /\ Rendered) =>
        \A k \in {"marker", "linestyle"} :
            /\ k \in DOMAIN rendered.kw
            /\ rendered.kw[k] # "cycle"
            /\ (~Omits(k) /\ last.arg[k] = "cycle") =>
                    /\ Has(AxMC(last.target), k)
                    /\ rendered.kw[k] \in Items(AxMC(last.target)[k])

\* a plot() asked to cycle both marker and linestyle
C11_Witness ==
    /\ last.op = "plot" /\ Rendered
    /\ ~Omits("marker") /\ last.arg["marker"] = "cycle"
    /\ ~Omits("linestyle") /\ last.arg["linestyle"] = "cycle"
    /\ rendered.kw["marker"] = "o" /\ rendered.kw["linestyle"] = "solid"

\* C12: under the no-line policy a marker the caller supplies, other than
\* 'cycle', reaches the renderer translated by the marker-name table when
\* it is one of its keys and unchanged when it is not, and the marker
\* cursor stays where it was.
C12_NoLineLiteralMarker ==
    (last.op \in NoLineOps /\ ~Omits("marker") /\ last.arg["marker"] # "cycle"
            /\ Rendered) =>
        LET mc == AxMC(last.target) IN
        /\ rendered.kw["marker"] = get_marker(last.arg["marker"]).value
        /\ (Has(mc, "marker") /\ Cardinality(Owners(mc["marker"])) = 1) =>
                cycles[mc["marker"]] = pre[mc["marker"]]

----------------------------------------------------------------------------
(* Properties of the marker-name lookup, under SpecNames *)

\* what the table says of a name: its code for a key, the name otherwise
Lookup(v) == IF v \in MarkerNames THEN MARKERS[v] ELSE v

\* C13, as claimed: get_marker(name) returns the table's code when name is
\* a key of MARKERS and name itself otherwise, and raises for no input
\* value at all.
C13_GetMarkerAsClaimed ==
    (last.op = "get_marker") =>
        (last.raised = "none" /\ last.value = Lookup(last.arg))

\* C13, amended: that holds for every hashable input (every string, and
\* None); an unhashable one raises TypeError in the table lookup.
C13_GetMarker ==
    (last.op = "get_marker") =>
        /\ last.arg \notin Unhashable =>
                (last.raised = "none" /\ last.value = Lookup(last.arg))
        /\ last.arg \in Unhashable => last.raised = "TypeError"
        /\ last.arg = "circle" => last.value = "o"
        /\ last.arg = "triangle_up" => last.value = "^"
        /\ last.arg = "diamond" => last.value = "d"

\* a name of the table looked up after a string that is not one
C13_Witness ==
    /\ last.op = "get_marker" /\ last.arg = "triangle_up" /\ last.value = "^"
    /\ last.prev.arg = "Circle" /\ last.prev.raised = "none"
    /\ last.prev.value = "Circle"

\* C14: the lookup is pure and idempotent: the same argument gives the
\* same outcome again, no cursor moves, and looking up a result returns
\* that result, so get_marker(get_marker(v)) = get_marker(v) for every v,
\* the codes of the table included.
C14_Idempotent ==
    (last.op = "get_marker") =>
        /\ cycles = pre
        /\ last.raised = "none" =>
                get_marker(last.value) = [raised |-> "none", value |-> last.value]
        /\ (last.prev.raised # "no call" /\ last.arg = last.prev.arg) =>
                (last.raised = last.prev.raised /\ last.value = last.prev.value)
        /\ (last.prev.raised = "none" /\ last.arg = last.prev.value) =>
                (last.raised = "none" /\ last.value = last.prev.value)
        /\ \A c \in MarkerCodes : get_marker(c).value = c

\* the lookup of 'circle', then of its result, after a cursor has moved
C14_Witness ==
    /\ last.op = "get_marker" /\ last.prev.arg = "circle" /\ last.arg = "o"
    /\ last.value = "o"
    /\ \E i \in 1..Len(cycles) : cycles[i].pos > 0

----------------------------------------------------------------------------
(* Properties of hist, under SpecHist *)

HistCall == last.op = "hist"

MissingData == "ValueError: send data in position 1"

\* the range asked for when range= is not given: min= and max=, a missing
\* one being the minimum or maximum of the data x
BoundsOf(x, min, max) ==
    <<IF min = None THEN array_min(x.vals) ELSE min[1],
      IF max = None THEN array_max(x.vals) ELSE max[1]>>

\* the range a hist() call with binsize works on
WorkingRange ==
    IF last.arg.range # None THEN last.arg.range
    ELSE BoundsOf(last.arg.args[1], last.arg.min, last.arg.max)

Abs(i) == IF i < 0 THEN -i ELSE i

\* k is an integer nearest to n / d
Nearest(k, n, d) == 2 * Abs(k * d - n) <= Abs(d)

\* n / d is at most one half, so it rounds to less than 1
RoundsBelowOne(n, d) == 2 * (IF d < 0 THEN -n ELSE n) <= Abs(d)

\* C15: with binsize given, the bin count handed to the renderer is
\* round((range_max - range_min) / binsize), raised to 1 when that is less,
\* whatever bins= was given; range [0, 1] with width 0.1 gives 10 and range
\* [0, 0.05] with width 1 gives 1.
C15_BinCount ==
    (HistCall /\ Rendered /\ last.arg.binsize # None) =>
        LET n == WorkingRange[2] - WorkingRange[1]
            d == last.arg.binsize[1]
            b == rendered.kw.bins[1]
        IN /\ rendered.kw.bins # None
           /\ rendered.kw.range = WorkingRange
           /\ b >= 1
           /\ Nearest(b, n, d) \/ (b = 1 /\ RoundsBelowOne(n, d))
           /\ (WorkingRange = <<0, 20>> /\ d = 2) => b = 10
           /\ (WorkingRange = <<0, 1>> /\ d = 20) => b = 1

\* a width larger than the range, with bins= given as well
C15_Witness ==
    /\ HistCall /\ Rendered
    /\ last.arg.binsize = <<20>> /\ last.arg.range = <<0, 1>>
    /\ last.arg.bins = <<5>>
    /\ rendered.kw.bins = <<1>>

\* C16: hist() with binsize, without range and without positional data
\* raises the missing-data error and the renderer is not called; with a
\* range, or without binsize, hist() never raises that error.
C16_MissingData ==
    HistCall =>
        /\ (last.arg.binsize # None /\ last.arg.range = None /\ last.arg.args = << >>)
                => (last.raised = MissingData /\ ~Rendered)
        /\ (last.arg.range # None \/ last.arg.binsize = None)
                => last.raised # MissingData

\* the error raised although min= and max= were both given
C16_Witness ==
    /\ HistCall /\ last.raised = MissingData /\ ~Rendered
    /\ last.arg.binsize # None /\ last.arg.args = << >>
    /\ last.arg.min # None /\ last.arg.max # None

\* C17: when range= is not given, min= and max= (a missing one being the
\* data's minimum or maximum) are the range handed to the renderer, with
\* or without binsize.
C17_MinMaxRange ==
    (HistCall /\ Rendered /\ last.arg.range = None
            /\ (last.arg.min # None \/ last.arg.max # None)
            /\ last.arg.args # << >>) =>
        LET x == last.arg.args[1] IN
        (x.kind = "ndarray" /\ Len(x.vals) > 0) =>
            rendered.kw.range = BoundsOf(x, last.arg.min, last.arg.max)

----------------------------------------------------------------------------
(* Properties of Plot and Table, under SpecFig *)

\* the values a list holds
Values(list) == {list[i] : i \in 1..Len(list)}

\* C18: the cycler given to Plot(cycler=c) is the one every drawing call
\* of that Plot consults: a plot() with no marker gets the next value of
\* c's marker cycle, which moves on; a Plot given no cycler draws from the
\* default lists.
C18_PlotCycler ==
    (last.op = "Plot.plot" /\ Rendered /\ Omits("marker")) =>
        LET given == figs[last.target].given IN
        /\ "marker" \in DOMAIN rendered.kw
        /\ IF given # 0
           THEN /\ rendered.kw["marker"] = Peek(pre, mcs[given]["marker"])
                /\ Advanced(mcs[given]["marker"])
           ELSE rendered.kw["marker"] \in Values(DEFAULT_MARKERS)

\* the axes other than a that the frame condition is about: both made
\* with default cyclers, or both cells of one Table
Covered(a, b) ==
    \/ FreshlyOwned(a) /\ FreshlyOwned(b)
    \/ \E t \in 1..Len(figs) :
            /\ figs[t].kind = "Table"
            /\ a \in Values(figs[t].axes) /\ b \in Values(figs[t].axes)

\* C19: a drawing call on one axes leaves alone every cursor that a
\* different axes draws from, for axes made with default cyclers and for
\* the cells of one Table made with a cycler of the caller's.
C19_OneSurface ==
    (last.op \in NoLineOps \cup LineOps) =>
        \A b \in Hickory \ {last.target} :
            Covered(last.target, b) =>
                \A k \in DOMAIN AxMC(b) : cycles[AxMC(b)[k]] = pre[AxMC(b)[k]]

----------------------------------------------------------------------------
(* Properties of the default cycler, under SpecDefault *)

\* the default list of a property
DefaultList(k) ==
    IF k = "marker" THEN DEFAULT_MARKERS
    ELSE IF k = "linestyle" THEN DEFAULT_LINESTYLES
    ELSE DEFAULT_COLORS

\* C20: get_default_multi_cycler() returns a cycler with exactly the
\* properties marker, linestyle and color, each at the start of its default
\* list of ten, however far the cyclers made before have advanced, and
\* those cyclers are left as they were; the n-th value it dispenses for a
\* property is the n-th of that list, the markers being
\* o, d, ^, s, v, h, p, P, H, X.
C20_DefaultCycler ==
    /\ DEFAULT_MARKERS = <<"o", "d", "^", "s", "v", "h", "p", "P", "H", "X">>
    /\ \A k \in Names : Len(DefaultList(k)) = 10
    /\ (last.op = "get_default_multi_cycler") =>
            LET mc == mcs[last.target] IN
            /\ DOMAIN mc = Names
            /\ \A k \in Names : cycles[mc[k]] = [items |-> DefaultList(k), pos |-> 0]
            /\ \A k, j \in Names : k # j => mc[k] # mc[j]
            /\ \A k \in Names : mc[k] > Len(pre)
            /\ SubSeq(cycles, 1, Len(pre)) = pre
    /\ (last.op = "next") =>
            /\ last.raised = "none"
            /\ last.value = Nth(DefaultList(last.arg), ncalls[last.target][last.arg])
            /\ \A m \in 1..Len(mcs), k \in Names :
                    cycles[mcs[m][k]].pos = ncalls[m][k] % 10

\* the first marker of a second default cycler, the first having
\* dispensed all ten of its markers
C20_Witness ==
    /\ last.op = "next" /\ last.target = 2 /\ last.arg = "marker"
    /\ last.value = "o"
    /\ ncalls[1]["marker"] = 10 /\ ncalls[2]["marker"] = 1

----------------------------------------------------------------------------
(* Properties of the convenience functions and of show and savefig,        *)
(* under SpecConv                                                          *)

\* the last operation made the call c
Called(c) == \E i \in 1..Len(calls) : calls[i] = c

\* every call c1 of the last operation came before every call c2
Before(c1, c2) ==
    \A i, j \in 1..Len(calls) : (calls[i] = c1 /\ calls[j] = c2) => i < j

ConvOps == {"convenience.plot", "convenience.plot_hist"}

DrawingCalls == {"plt.plot", "plt.errorbar", "plt.hist"}

\* C21: in plot() and plot_hist(), show= when not passed is True if file=
\* is not sent and False if it is: a call with file= and no show= saves
\* the file and does not display the plot, and a call with neither
\* displays it.
C21_ShowDefault ==
    (last.op \in ConvOps /\ last.raised = "none" /\ "show" \notin DOMAIN last.arg.kw) =>
        IF "file" \in DOMAIN last.arg.kw
        THEN Called("fig.savefig") /\ ~Called("fig.show")
        ELSE Called("fig.show")

\* C22: show() and savefig() on a Plot built with legend=True or with a
\* Legend render a legend before the output and complete; on a Plot built
\* with legend None or False they render none.
C22_LegendRendered ==
    (last.op \in {"show", "savefig"} /\ figs[last.target].kind = "Plot") =>
        IF figs[last.target].legend # PyNone
        THEN /\ last.raised = "none"
             /\ Called("ax.legend")
             /\ Before("ax.legend", "fig.show") /\ Before("ax.legend", "fig.savefig")
        ELSE ~Called("ax.legend")

\* the positions of the last operation's calls that are drawing calls
Drawings == {i \in 1..Len(calls) : calls[i] \in DrawingCalls}

\* C27: convenience.plot() issues exactly one drawing call on the Plot,
\* errorbar() if xerr or yerr is not None and plot() otherwise; when plt=
\* is passed that Plot is drawn on and returned and no Plot is created;
\* the drawing call comes before savefig, which comes before show.
C27_OneDrawingCall ==
    last.op = "convenience.plot" =>
        /\ Cardinality(Drawings) = 1
        /\ Called(IF last.arg.xerr # PyNone \/ last.arg.yerr # PyNone
                  THEN "plt.errorbar" ELSE "plt.plot")
        /\ last.target # 0 =>
              /\ last.returned = last.target
              /\ Len(figs) = last.arg.nfigs
        /\ \A d \in DrawingCalls :
              Before(d, "fig.savefig") /\ Before(d, "fig.show")
        /\ Before("fig.savefig", "fig.show")

----------------------------------------------------------------------------
(* Properties of the two style policies and of the cursors, under Spec *)

DrawOps == NoLineOps \cup LineOps

\* the value the last call asked for under key: PyNone when it gave none
Asked(key) == IF Omits(key) THEN PyNone ELSE last.arg[key]

\* the last operation left the cursor of key k of mc where it was
Still(mc, k) == Has(mc, k) => cycles[mc[k]] = pre[mc[k]]

\* the last call handed the renderer the next value of key k and moved
\* that cursor by one
Consumed(mc, k) ==
    /\ Has(mc, k)
    /\ rendered.kw[k] = Peek(pre, mc[k])
    /\ Advanced(mc[k])

\* C23: under the no-line policy (plot, errorbar) a linestyle omitted or
\* None reaches the renderer as 'none' and the linestyle cursor stays;
\* linestyle='cycle' reaches it as the next value of the linestyle cycle,
\* which moves by one; any other linestyle reaches it unchanged and the
\* cursor stays.
C23_NoLineLinestyle ==
    (last.op \in NoLineOps) =>
        LET mc == AxMC(last.target) IN
        /\ Asked("linestyle") # "cycle" => Still(mc, "linestyle")
        /\ Rendered =>
              IF Asked("linestyle") = PyNone THEN rendered.kw["linestyle"] = "none"
              ELSE IF Asked("linestyle") = "cycle" THEN Consumed(mc, "linestyle")
              ELSE rendered.kw["linestyle"] = last.arg["linestyle"]

\* an errorbar() asked to cycle its linestyle, and one given a literal
C23_Witness ==
    /\ last.op = "errorbar" /\ Rendered
    /\ Asked("linestyle") = "cycle"
    /\ Consumed(AxMC(last.target), "linestyle")
    /\ cycles[AxMC(last.target)["linestyle"]] # pre[AxMC(last.target)["linestyle"]]

\* C24: under the line policy (curve, function) a linestyle passed as None
\* reaches the renderer as 'none' and the linestyle cursor stays, while a
\* linestyle omitted or 'cycle' takes exactly one value from the
\* linestyle cycle.
C24_LineLinestyle ==
    (last.op \in LineOps) =>
        LET mc == AxMC(last.target) IN
        /\ (~Omits("linestyle") /\ last.arg["linestyle"] = PyNone) =>
              /\ Still(mc, "linestyle")
              /\ Rendered => rendered.kw["linestyle"] = "none"
        /\ (Rendered /\ (Omits("linestyle") \/ Asked("linestyle") = "cycle")) =>
              Consumed(mc, "linestyle")

\* a curve() given linestyle=None on an axes whose cycler has linestyles
C24_Witness ==
    /\ last.op = "curve" /\ Rendered
    /\ ~Omits("linestyle") /\ last.arg["linestyle"] = PyNone
    /\ rendered.kw["linestyle"] = "none"
    /\ Has(AxMC(last.target), "linestyle")
    /\ Len(cycles[AxMC(last.target)["linestyle"]].items) > 1

\* C25: a drawing call whose style resolution raises never calls the
\* renderer, and every call that reaches the renderer carries a color, a
\* marker and a linestyle entry, none of them left to be resolved.
C25_Atomic ==
    (last.op \in DrawOps) =>
        /\ last.raised # "none" => ~Rendered
        /\ last.raised = "none" => Rendered
        /\ Rendered =>
              /\ Names \subseteq DOMAIN rendered.kw
              /\ rendered.kw["marker"] # "cycle"
              /\ rendered.kw["linestyle"] \notin {"cycle", PyNone}

\* a plot() on an axes whose cycler has no marker entry
C25_Witness ==
    /\ last.op = "plot" /\ last.raised = "ValueError" /\ ~Rendered
    /\ ~Has(AxMC(last.target), "marker")

\* the policy of the last call draws key k from the cycler
Draws(k) ==
    CASE k = "color" -> Omits("color")
      [] k = "marker" -> IF last.op \in NoLineOps
                         THEN Omits("marker") \/ Asked("marker") = "cycle"
                         ELSE Asked("marker") = "cycle"
      [] k = "linestyle" -> IF last.op \in NoLineOps
                            THEN Asked("linestyle") = "cycle"
                            ELSE Omits("linestyle") \/ Asked("linestyle") = "cycle"

\* C28: one drawing call moves the cursor of a property by exactly one
\* place if and only if its policy draws that property from the cycler,
\* and leaves every other cursor where it was: a call that reaches the
\* renderer has moved the cursors it draws by one, and no call, raising
\* or not, moves a cursor it does not draw or moves one by more than one.
C28_OneAdvance ==
    (last.op \in DrawOps) =>
        LET mc == AxMC(last.target) IN
        /\ \A k \in Names :
              /\ (Rendered /\ Draws(k)) => (Has(mc, k) /\ Advanced(mc[k]))
              /\ ~Draws(k) => Still(mc, k)
              /\ (Has(mc, k) /\ cycles[mc[k]] # pre[mc[k]]) => Advanced(mc[k])
        /\ \A id \in 1..Len(pre) :
              (\A k \in Names : Has(mc, k) => mc[k] # id) => cycles[id] = pre[id]

\* a plot() that draws color and marker and is given its linestyle, on a
\* cycler of three-item lists
C28_Witness ==
    /\ last.op = "plot" /\ Rendered
    /\ Omits("color") /\ Omits("marker") /\ Asked("linestyle") = "dashed"
    /\ LET mc == AxMC(last.target) IN
       /\ Len(cycles[mc["color"]].items) = 3
       /\ Advanced(mc["color"]) /\ Advanced(mc["marker"])
       /\ cycles[mc["color"]] # pre[mc["color"]]
       /\ cycles[mc["linestyle"]] = pre[mc["linestyle"]]

----------------------------------------------------------------------------
(* Properties of hist() with an explicit range, under SpecHist *)

\* C26: hist() given range= together with binsize uses that range, not
\* min=, max= or the extremes of the data: the bin count is derived from
\* it and it is handed to the renderer unchanged; the renderer receives
\* bins and range only, never binsize.
C26_RangeFirst ==
    (HistCall /\ last.arg.binsize # None /\ last.arg.range # None) =>
        LET n == last.arg.range[2] - last.arg.range[1]
            d == last.arg.binsize[1]
        IN /\ Rendered <=> d # 0
           /\ last.raised # MissingData
           /\ Rendered =>
                /\ DOMAIN rendered.kw = {"bins", "range"}
                /\ rendered.kw.range = last.arg.range
                /\ rendered.kw.bins # None
                /\ rendered.kw.bins[1] >= 1
                /\ \/ Nearest(rendered.kw.bins[1], n, d)
                   \/ rendered.kw.bins[1] = 1 /\ RoundsBelowOne(n, d)

\* a range given with min=, max= and data that all lie elsewhere
C26_Witness ==
    /\ HistCall /\ Rendered
    /\ last.arg.range = <<0, 20>> /\ last.arg.binsize = <<2>>
    /\ last.arg.min = <<5>> /\ last.arg.max = <<15>>
    /\ last.arg.args = <<[kind |-> "ndarray", vals |-> <<30, -10, 3>>]>>
    /\ rendered.kw.range = <<0, 20>> /\ rendered.kw.bins = <<10>>

----------------------------------------------------------------------------
(* Properties of the order of style resolution, under SpecOrder *)

\* the last operation was a drawing call without color= that raised the
\* unknown-property error on an axes whose cycler has colors
RaisedLater ==
    /\ last.op \in DrawOps /\ last.raised = "ValueError"
    /\ Omits("color") /\ Has(AxMC(last.target), "color")

\* the color cursor has moved when a later property is found missing
C29_ColorMoved ==
    RaisedLater => /\ ~Rendered
                   /\ Advanced(AxMC(last.target)["color"])

\* the drawing call that follows on the same axes, again without color=,
\* receives the color after the one the failed call took
C29_NextSees ==
    (RaisedLater /\ last'.op \in DrawOps /\ last'.target = last.target
            /\ nops' = nops + 1 /\ "color" \notin DOMAIN last'.arg
            /\ rendered'.prim # "none") =>
        LET id == AxMC(last.target)["color"] IN
        rendered'.kw["color"] = resolve_color(Nth(pre[id].items, pre[id].pos + 2))

----------------------------------------------------------------------------
(* Properties of iteration over a container, under SpecIter *)

\* C30: iterating a container yields its axes in list order, each once,
\* and then stops; iter() starts again from the first axes; the cursor is
\* one field of the container and iter() returns the container itself, so
\* two iterations of one container share it and starting the second
\* resets the first.
C30_Iteration ==
    /\ \A p \in 1..Len(figs) :
          figs[p].ax_index # NoAttr =>
              figs[p].yielded = SubSeq(figs[p].axes, 1, figs[p].ax_index)
    /\ last.op = "iter" =>
          /\ figs[last.target].ax_index = 0
          /\ last.returned = last.target
    /\ (last.op = "next" /\ figs[last.target].iters > 0) =>
          LET f == figs[last.target] IN
          IF last.raised = "none"
          THEN last.returned = f.axes[f.ax_index]
          ELSE last.raised = "StopIteration" /\ f.yielded = f.axes

\* a second iter() on a two-cell Table after the first iteration had
\* yielded one cell: the next() that follows yields the first cell again
C30_Witness ==
    /\ last.op = "next" /\ last.raised = "none"
    /\ LET f == figs[last.target] IN
       /\ Len(f.axes) = 2
       /\ f.iters = 2 /\ f.nexts = 2
       /\ f.yielded = <<f.axes[1]>>
       /\ last.returned = f.axes[1]

====
